---- MODULE Spec2Model ----
(***************************************************************************)
(* A model of main.py of ai-resume-critiquer: one Streamlit session.       *)
(* Every click on "Analyze Resume" reruns the script; the session state    *)
(* (last_request_time, last_file_hash, cached_response) is what survives   *)
(* from one run to the next.  A run is followed through the positions of   *)
(* the main logic (lines 92-189).  The framework runs one script at a time *)
(* for a session: a click that arrives while a run is in progress is       *)
(* queued and its run starts when the run in progress has ended.           *)
(***************************************************************************)
EXTENDS Integers, Sequences, FiniteSets

\* ------------------------------------------------------------------ bounds
\* The wall clock is followed for this many steps of 2 seconds after the
\* session starts.
MaxTicks == 6
\* Longest job-role string and longest resume text of the scoring runs.
MaxRoleLen == 5
MaxTextLen == 3

\* ------------------------------------------------------- program constants
\* Line 99: the minimum number of seconds between two accepted requests.
RateLimit == 10
\* Line 89: the cap of the score.
MaxScore == 100

\* time.time() at the start of the session.  It is seconds since 1970, far
\* above RateLimit, so that the first request of a session always passes the
\* comparison of line 99 with last_request_time = 0; RateLimit is the smallest
\* value with that effect.
StartTime == RateLimit
\* The clock advances in steps of these lengths, 2 and 8 seconds: gaps just
\* below the limit and exactly at the limit both occur.
TickSteps == {2, RateLimit - 2}
EndTime == StartTime + 2 * MaxTicks

None == "None"

\* --------------------------------------------------------------- the inputs
\* The files a user may upload (line 35).  f1, f2, f3 hold readable text,
\* fEmpty extracts to nothing but whitespace, fBad cannot be parsed (not a
\* PDF although named .pdf).  All have different bytes.
Files == {"f1", "f2", "f3", "fEmpty", "fBad"}

FileBytes(f) ==
    CASE f = "f1" -> "bytes1"
      [] f = "f2" -> "bytes2"
      [] f = "f3" -> "bytes3"
      [] f = "fEmpty" -> "bytes4"
      [] f = "fBad" -> "bytes5"

\* The text of a readable file, as a sequence of characters.
FileText(f) ==
    CASE f = "f1" -> <<"a", " ", "B">>
      [] f = "f2" -> <<"B", "a">>
      [] f = "f3" -> <<"a">>
      [] f = "fEmpty" -> <<" ">>
      [] f = "fBad" -> <<>>

\* The job roles typed in the text input (line 36); <<>> is the empty input.
JobRoles == {<<>>, <<"a", " ", "b">>}

\* The modes of the select box (lines 40-43).
Modes == {"Demo Mode", "Google Gemini (AI)"}

\* The fixed text of the demo mode (lines 161-169).
DemoText == "demo feedback"
\* The text the Gemini call returns (line 178).
GeminiTexts == {"gemini feedback"}

\* ----------------------------------------------------------- pure functions
\* str.lower() on one character.
LowerChar(c) == IF c = "A" THEN "a" ELSE IF c = "B" THEN "b" ELSE c

\* str.lower()
lower(s) == [i \in 1..Len(s) |-> LowerChar(s[i])]

IsSpace(c) == c = " "

\* str.split(): the maximal runs of non-whitespace characters, in order.
RECURSIVE SplitFrom(_, _, _)
SplitFrom(s, i, cur) ==
    IF i > Len(s)
    THEN IF cur = <<>> THEN <<>> ELSE <<cur>>
    ELSE IF IsSpace(s[i])
         THEN IF cur = <<>>
              THEN SplitFrom(s, i + 1, <<>>)
              ELSE <<cur>> \o SplitFrom(s, i + 1, <<>>)
         ELSE SplitFrom(s, i + 1, Append(cur, s[i]))

split(s) == SplitFrom(s, 1, <<>>)

\* str.strip() == "": nothing but whitespace.
IsBlank(s) == \A i \in 1..Len(s) : IsSpace(s[i])

\* k in text: k is a substring of text.
Contains(text, k) ==
    \E off \in 0..(Len(text) - Len(k)) :
        \A i \in 1..Len(k) : text[off + i] = k[i]

\* sum(1 for k in keywords if k in text), lines 86-88.
RECURSIVE CountHits(_, _)
CountHits(keywords, text) ==
    IF keywords = <<>>
    THEN 0
    ELSE (IF Contains(text, Head(keywords)) THEN 1 ELSE 0)
         + CountHits(Tail(keywords), text)

Min(a, b) == IF a < b THEN a ELSE b
Max(a, b) == IF a > b THEN a ELSE b

\* Line 89 with round() in the place of int().
PercentRounded(hits, n) == (2 * hits * 100 + Max(1, n)) \div (2 * Max(1, n))

\* int((hits / max(1, n)) * 100), line 89.  The quotient and the product are
\* floating point and int() truncates; for n < 50 the result is the integer
\* quotient of 100 * hits by n (the first pair where the floating-point
\* product falls below the exact one is hits = 29, n = 50).
Percent(hits, n) == (hits * 100) \div Max(1, n)

\* Lines 82-89.
ats_score(text, role) ==
    IF role = <<>>
    THEN 0
    ELSE LET keywords == split(lower(role))
             hits == CountHits(keywords, lower(text))
         IN Min(MaxScore, Percent(hits, Len(keywords)))

\* hashlib.md5(file_bytes).hexdigest(), lines 79-80.
file_hash(bytes) ==
    CASE bytes = "bytes1" -> "md5-1"
      [] bytes = "bytes2" -> "md5-2"
      [] bytes = "bytes3" -> "md5-3"
      [] bytes = "bytes4" -> "md5-4"
      [] bytes = "bytes5" -> "md5-5"

\* ------------------------------------------------------------------- state
VARIABLES
    clock,              \* time.time(), in seconds
    genai,              \* lines 13-16: the google.generativeai import succeeded
    GOOGLE_API_KEY,     \* line 19: the environment holds an API key
    last_request_time,  \* st.session_state, lines 50-57
    last_file_hash,
    cached_response,
    pc,                 \* the position of the script run
    uploaded_file,      \* the widgets' values of the run, lines 35-43
    job_role,
    ai_provider,
    current_time,       \* the locals of the run
    current_hash,
    file_content,
    score,
    prompt,
    output_text,
    error,              \* the message of st.warning / st.error, as its kind
    shown,              \* the feedback text rendered by st.markdown
    providerCalls,      \* calls of model.generate_content in this run
    queued,             \* a click that arrived during the run: where it arrived
    arrived,            \* where the click of this run arrived
    trace,              \* the phases this run has been through
    prev,               \* the run before this one: file, outcome
    completed,          \* the last analysis that ran to its end
    acceptedSince       \* a request was accepted after that analysis

session == <<last_request_time, last_file_hash, cached_response>>
env == <<genai, GOOGLE_API_KEY>>
widgets == <<uploaded_file, job_role, ai_provider>>
locals == <<current_time, current_hash, file_content, score, prompt, output_text>>
display == <<error, shown>>
observed == <<trace, completed, acceptedSince>>
vars == <<clock, env, session, pc, widgets, locals, display, providerCalls,
          queued, arrived, prev, observed>>

Terminal == {"Cached", "Done", "Rejected", "Failed"}
Running == {"Start", "Extracting", "Scoring", "Prompt",
            "Dispatch", "Calling", "Store"}

\* The state of the per-trigger state machine a position belongs to.
Phase(p) ==
    CASE p \in {"Idle", "Start"} -> "Idle"
      [] p \in {"Prompt", "Dispatch", "Calling", "Store"} -> "Generating"
      [] OTHER -> p

NoRun == [file |-> None, outcome |-> None]
NoPrompt == [role |-> <<>>, resume |-> <<>>]
NoAnalysis == [file |-> None, hash |-> None, text |-> None, time |-> 0,
               doneAt |-> 0, mode |-> None, role |-> <<>>]

\* Lines 13-22 and 50-57: the state of a fresh session.
Init ==
    /\ clock = StartTime
    /\ genai \in BOOLEAN
    /\ GOOGLE_API_KEY \in BOOLEAN
    /\ last_request_time = 0
    /\ last_file_hash = None
    /\ cached_response = None
    /\ pc = "Idle"
    /\ uploaded_file = None
    /\ job_role = <<>>
    /\ ai_provider = "Demo Mode"
    /\ current_time = 0
    /\ current_hash = None
    /\ file_content = <<>>
    /\ score = 0
    /\ prompt = NoPrompt
    /\ output_text = None
    /\ error = None
    /\ shown = None
    /\ providerCalls = 0
    /\ queued = None
    /\ arrived = "Idle"
    /\ trace = <<"Idle">>
    /\ prev = NoRun
    /\ completed = NoAnalysis
    /\ acceptedSince = FALSE

\* ----------------------------------------------------------------- actions
\* The position where a run waits: the blocking call of line 177.  Everywhere
\* else a run computes, in no time at the model's resolution.
Waiting == {"Calling"}

\* Time passes, between runs and while a run waits.
Tick(d) ==
    /\ pc \in Terminal \cup {"Idle"} \cup Waiting
    /\ clock + d <= EndTime
    /\ clock' = clock + d
    /\ UNCHANGED <<env, session, pc, widgets, locals, display, providerCalls,
                   queued, arrived, prev>>

\* Lines 35-47 and 92: a rerun of the script with analyze = True.  The locals
\* of the run before are gone.
StartRun(f, r, m, at) ==
    /\ pc' = "Start"
    /\ uploaded_file' = f
    /\ job_role' = r
    /\ ai_provider' = m
    /\ current_hash' = None
    /\ file_content' = <<>>
    /\ score' = 0
    /\ prompt' = NoPrompt
    /\ output_text' = None
    /\ error' = None
    /\ shown' = None
    /\ providerCalls' = 0
    /\ arrived' = at
    /\ queued' = None
    /\ prev' = IF pc = "Idle"
               THEN prev
               ELSE [file |-> uploaded_file, outcome |-> pc]
    /\ UNCHANGED <<clock, env, session, current_time>>

\* The user clicks "Analyze Resume" (line 47) while no run is in progress.
Analyze(f, r, m) ==
    /\ pc \in Terminal \cup {"Idle"}
    /\ queued = None
    /\ StartRun(f, r, m, "Idle")

\* The user clicks while a run is in progress: the click is queued.
ClickWhileRunning ==
    /\ pc \in Waiting
    /\ queued = None
    /\ queued' = Phase(pc)
    /\ UNCHANGED <<clock, env, session, pc, widgets, locals, display,
                   providerCalls, arrived, prev>>

\* The run of a queued click starts when the run in progress has ended.
RunQueued(f, r, m) ==
    /\ pc \in Terminal
    /\ queued # None
    /\ StartRun(f, r, m, queued)

\* Lines 93-95: no file.
NoFile ==
    /\ pc = "Start"
    /\ uploaded_file = None
    /\ error' = "NoFileProvided"
    /\ pc' = "Failed"
    /\ UNCHANGED <<clock, env, session, widgets, locals, shown, providerCalls,
                   queued, arrived, prev>>

\* Line 99 with <= in the place of <.
TooSoonAtInclusive(now) == now - last_request_time <= RateLimit

\* The comparison of line 99.
TooSoonAt(now) == now - last_request_time < RateLimit

\* Lines 97-101 with the stamp of line 113 set before the comparison.
TooSoonRestamps ==
    /\ pc = "Start"
    /\ uploaded_file # None
    /\ current_time' = clock
    /\ TooSoonAt(clock)
    /\ last_request_time' = clock
    /\ error' = "TooSoon"
    /\ pc' = "Rejected"
    /\ UNCHANGED <<clock, env, last_file_hash, cached_response, widgets,
                   current_hash, file_content, score, prompt, output_text,
                   shown, providerCalls, queued, arrived, prev>>

\* Lines 97-101.
TooSoon ==
    /\ pc = "Start"
    /\ uploaded_file # None
    /\ current_time' = clock
    /\ TooSoonAt(clock)
    /\ error' = "TooSoon"
    /\ pc' = "Rejected"
    /\ UNCHANGED <<clock, env, session, widgets, current_hash, file_content,
                   score, prompt, output_text, shown, providerCalls, queued,
                   arrived, prev>>

\* Line 108 with the cache used in demo mode only.
CacheHitNowDemoOnly ==
    /\ last_file_hash = file_hash(FileBytes(uploaded_file))
    /\ ai_provider = "Demo Mode"

\* The comparison of line 108, on the hash of line 106.
CacheHitNow == last_file_hash = file_hash(FileBytes(uploaded_file))

\* Lines 97-111 with the stamp of line 113 set before the cache check.
CacheHitRestamps ==
    /\ pc = "Start"
    /\ uploaded_file # None
    /\ current_time' = clock
    /\ ~TooSoonAt(clock)
    /\ current_hash' = file_hash(FileBytes(uploaded_file))
    /\ last_file_hash = file_hash(FileBytes(uploaded_file))
    /\ last_request_time' = clock
    /\ shown' = cached_response
    /\ pc' = "Cached"
    /\ UNCHANGED <<clock, env, last_file_hash, cached_response, widgets,
                   file_content, score, prompt, output_text, error,
                   providerCalls, queued, arrived, prev>>

\* Lines 97-111.
CacheHit ==
    /\ pc = "Start"
    /\ uploaded_file # None
    /\ current_time' = clock
    /\ ~TooSoonAt(clock)
    /\ current_hash' = file_hash(FileBytes(uploaded_file))
    /\ CacheHitNow
    /\ shown' = cached_response
    /\ pc' = "Cached"
    /\ UNCHANGED <<clock, env, session, widgets, file_content, score, prompt,
                   output_text, error, providerCalls, queued, arrived, prev>>

\* Lines 97-113 without the stamp of line 113.
AcceptWithoutStamp ==
    /\ pc = "Start"
    /\ uploaded_file # None
    /\ current_time' = clock
    /\ ~TooSoonAt(clock)
    /\ current_hash' = file_hash(FileBytes(uploaded_file))
    /\ ~CacheHitNow
    /\ pc' = "Extracting"
    /\ UNCHANGED <<clock, env, session, widgets, file_content, score, prompt,
                   output_text, display, providerCalls, queued, arrived, prev>>

\* Lines 97-113: the request is accepted.
Accept ==
    /\ pc = "Start"
    /\ uploaded_file # None
    /\ current_time' = clock
    /\ ~TooSoonAt(clock)
    /\ current_hash' = file_hash(FileBytes(uploaded_file))
    /\ ~CacheHitNow
    /\ last_request_time' = current_time'
    /\ pc' = "Extracting"
    /\ UNCHANGED <<clock, env, last_file_hash, cached_response, widgets,
                   file_content, score, prompt, output_text, display,
                   providerCalls, queued, arrived, prev>>

\* Line 117 raises (PdfReader on bytes that are no PDF, or decode on bytes
\* that are not UTF-8); lines 188-189 report it.
ExtractRaises ==
    /\ pc = "Extracting"
    /\ uploaded_file = "fBad"
    /\ error' = "UnreadableDocument"
    /\ pc' = "Failed"
    /\ UNCHANGED <<clock, env, session, widgets, locals, shown, providerCalls,
                   queued, arrived, prev>>

\* Lines 117-121: the text is empty.
ExtractEmpty ==
    /\ pc = "Extracting"
    /\ uploaded_file # "fBad"
    /\ IsBlank(FileText(uploaded_file))
    /\ file_content' = FileText(uploaded_file)
    /\ error' = "UnreadableDocument"
    /\ pc' = "Failed"
    /\ UNCHANGED <<clock, env, session, widgets, current_time, current_hash,
                   score, prompt, output_text, shown, providerCalls, queued,
                   arrived, prev>>

\* Lines 117-119: the text is there.
Extract ==
    /\ pc = "Extracting"
    /\ uploaded_file # "fBad"
    /\ ~IsBlank(FileText(uploaded_file))
    /\ file_content' = FileText(uploaded_file)
    /\ pc' = "Scoring"
    /\ UNCHANGED <<clock, env, session, widgets, current_time, current_hash,
                   score, prompt, output_text, display, providerCalls, queued,
                   arrived, prev>>

\* Lines 123-138.
Score ==
    /\ pc = "Scoring"
    /\ score' = ats_score(file_content, job_role)
    /\ pc' = "Prompt"
    /\ UNCHANGED <<clock, env, session, widgets, current_time, current_hash,
                   file_content, prompt, output_text, display, providerCalls,
                   queued, arrived, prev>>

\* Lines 141-157.
BuildPrompt ==
    /\ pc = "Prompt"
    /\ prompt' = [role |-> IF job_role # <<>> THEN job_role
                           ELSE <<"General job applications">>,
                  resume |-> file_content]
    /\ pc' = "Dispatch"
    /\ UNCHANGED <<clock, env, session, widgets, current_time, current_hash,
                   file_content, score, output_text, display, providerCalls,
                   queued, arrived, prev>>

\* Lines 160-169.
DemoFeedback ==
    /\ pc = "Dispatch"
    /\ ai_provider = "Demo Mode"
    /\ output_text' = DemoText
    /\ pc' = "Store"
    /\ UNCHANGED <<clock, env, session, widgets, current_time, current_hash,
                   file_content, score, prompt, display, providerCalls, queued,
                   arrived, prev>>

\* Line 172 with "and" in the place of "or".
GeminiMissingBoth == ~genai /\ ~GOOGLE_API_KEY

\* The condition of line 172.
GeminiMissing == ~genai \/ ~GOOGLE_API_KEY

\* Lines 171-174.
GeminiUnavailable ==
    /\ pc = "Dispatch"
    /\ ai_provider = "Google Gemini (AI)"
    /\ GeminiMissing
    /\ error' = "ProviderUnavailable"
    /\ pc' = "Failed"
    /\ UNCHANGED <<clock, env, session, widgets, locals, shown, providerCalls,
                   queued, arrived, prev>>

\* Lines 176-177: the request goes out; the call blocks until the answer.
GeminiCall ==
    /\ pc = "Dispatch"
    /\ ai_provider = "Google Gemini (AI)"
    /\ ~GeminiMissing
    /\ providerCalls' = providerCalls + 1
    /\ pc' = "Calling"
    /\ UNCHANGED <<clock, env, session, widgets, locals, display, queued,
                   arrived, prev>>

\* Lines 177-178: the answer.
GeminiReturns(t) ==
    /\ pc = "Calling"
    /\ output_text' = t
    /\ pc' = "Store"
    /\ UNCHANGED <<clock, env, session, widgets, current_time, current_hash,
                   file_content, score, prompt, display, providerCalls, queued,
                   arrived, prev>>

\* Lines 188-189 caching the error message as the feedback of the file.
GeminiRaisesCaches ==
    /\ pc = "Calling"
    /\ error' = "ProviderError"
    /\ last_file_hash' = current_hash
    /\ cached_response' = "ProviderError"
    /\ pc' = "Failed"
    /\ UNCHANGED <<clock, env, last_request_time, widgets, locals, shown,
                   providerCalls, queued, arrived, prev>>

\* Lines 188-189 trying the call again.
GeminiRaisesRetries ==
    /\ pc = "Calling"
    /\ pc' = "Dispatch"
    /\ UNCHANGED <<clock, env, session, widgets, locals, display,
                   providerCalls, queued, arrived, prev>>

\* Line 177 raises (network, quota, a response without text); lines 188-189.
GeminiRaises ==
    /\ pc = "Calling"
    /\ error' = "ProviderError"
    /\ pc' = "Failed"
    /\ UNCHANGED <<clock, env, session, widgets, locals, shown, providerCalls,
                   queued, arrived, prev>>

\* Lines 180-186 without line 181.
StoreTextOnly ==
    /\ pc = "Store"
    /\ cached_response' = output_text
    /\ shown' = output_text
    /\ pc' = "Done"
    /\ UNCHANGED <<clock, env, last_request_time, last_file_hash, widgets,
                   locals, error, providerCalls, queued, arrived, prev>>

\* Lines 180-186.
Store ==
    /\ pc = "Store"
    /\ last_file_hash' = current_hash
    /\ cached_response' = output_text
    /\ shown' = output_text
    /\ pc' = "Done"
    /\ UNCHANGED <<clock, env, last_request_time, widgets, locals, error,
                   providerCalls, queued, arrived, prev>>

Step ==
    \/ \E d \in TickSteps : Tick(d)
    \/ \E f \in Files \cup {None}, r \in JobRoles, m \in Modes : Analyze(f, r, m)
    \/ ClickWhileRunning
    \/ \E f \in Files \cup {None}, r \in JobRoles, m \in Modes : RunQueued(f, r, m)
    \/ NoFile
    \/ TooSoon
    \/ CacheHit
    \/ Accept
    \/ ExtractRaises
    \/ ExtractEmpty
    \/ Extract
    \/ Score
    \/ BuildPrompt
    \/ DemoFeedback
    \/ GeminiUnavailable
    \/ GeminiCall
    \/ \E t \in GeminiTexts : GeminiReturns(t)
    \/ GeminiRaises
    \/ Store

\* What an observer of the run records: the phases of the run, the analysis
\* that last reached Done, and whether a request was accepted since.
Observe ==
    /\ trace' = IF pc' = "Start" THEN <<"Idle">>
                ELSE IF pc = "Start" /\ uploaded_file # None /\ pc' # pc
                THEN trace \o <<"RateCheck", Phase(pc')>>
                ELSE IF Phase(pc') # Phase(pc) THEN Append(trace, Phase(pc'))
                ELSE trace
    /\ completed' = IF pc # "Done" /\ pc' = "Done"
                    THEN [file |-> uploaded_file',
                          hash |-> file_hash(FileBytes(uploaded_file')),
                          text |-> output_text',
                          time |-> current_time',
                          doneAt |-> clock',
                          mode |-> ai_provider',
                          role |-> job_role']
                    ELSE completed
    /\ acceptedSince' = IF pc # "Done" /\ pc' = "Done" THEN FALSE
                        ELSE IF pc = "Start" /\ pc' = "Extracting" THEN TRUE
                        ELSE acceptedSince

Next == Step /\ Observe

Spec == Init /\ [][Next]_vars

\* ------------------------------------------------- the scoring function alone
Alphabet == {"a", "B", " "}
Strings(n) == UNION {[1..k -> Alphabet] : k \in 0..n}

\* Line 128 with every short resume text that passes line 119 and every short
\* job role.
ScoreInit ==
    /\ clock = StartTime
    /\ genai = TRUE
    /\ GOOGLE_API_KEY = TRUE
    /\ last_request_time = StartTime
    /\ last_file_hash = None
    /\ cached_response = None
    /\ pc = "Scoring"
    /\ uploaded_file = "f1"
    /\ job_role \in Strings(MaxRoleLen)
    /\ ai_provider = "Demo Mode"
    /\ current_time = StartTime
    /\ current_hash = file_hash(FileBytes("f1"))
    /\ file_content \in {t \in Strings(MaxTextLen) : ~IsBlank(t)}
    /\ score = 0
    /\ prompt = NoPrompt
    /\ output_text = None
    /\ error = None
    /\ shown = None
    /\ providerCalls = 0
    /\ queued = None
    /\ arrived = "Idle"
    /\ trace = <<"Idle", "RateCheck", "Extracting", "Scoring">>
    /\ prev = NoRun
    /\ completed = NoAnalysis
    /\ acceptedSince = TRUE

ScoreNext == Score /\ Observe

ScoreSpec == ScoreInit /\ [][ScoreNext]_vars

\* ------------------------------------------------------------- the claims
Gemini == "Google Gemini (AI)"
HashOf(f) == file_hash(FileBytes(f))

\* A run at line 92 with a file: the next step is the decision of lines 97-113.
AtGate == pc = "Start" /\ uploaded_file # None

\* The run before this one went through the gate: it ended Done, or Failed
\* with a file (a run without a file fails before the gate).
PrevAccepted == prev.file # None /\ prev.outcome \in {"Done", "Failed"}

\* The run before this one was the analysis of the same bytes and ran to Done.
JustCompletedSame ==
    /\ prev.outcome = "Done"
    /\ prev.file # None
    /\ FileBytes(prev.file) = FileBytes(uploaded_file)

\* C1, as stated: a trigger on the bytes whose analysis has just completed at
\* t0 = completed.doneAt, at a time less than 10 seconds after t0, returns the
\* cached feedback text (Cached) and does not call the provider.
C1_CachedWithinWindow ==
    [][(AtGate /\ JustCompletedSame /\ clock - completed.doneAt < RateLimit)
        => (pc' = "Cached" /\ shown' = completed.text /\ providerCalls' = 0)]_vars

\* C1, amended: a trigger on the bytes whose analysis has just completed never
\* calls the provider and leaves the session state as it is; less than 10
\* seconds after that analysis's own request time it is rejected as TooSoon
\* and shows no feedback, from 10 seconds on it shows the cached text (Cached).
C1_RejectedOrCached ==
    [][(AtGate /\ JustCompletedSame)
        => /\ providerCalls' = 0
           /\ UNCHANGED session
           /\ IF clock - completed.time < RateLimit
              THEN pc' = "Rejected" /\ error' = "TooSoon" /\ shown' = None
              ELSE pc' = "Cached" /\ shown' = completed.text]_vars

C1_Witness ==
    /\ pc = "Rejected"
    /\ error = "TooSoon"
    /\ JustCompletedSame
    /\ current_time - completed.doneAt < RateLimit
    /\ cached_response = completed.text

\* The line-97 times of this run (clock, at the gate) and of the run before it
\* (current_time, until this run overwrites it) are 2 seconds apart and the
\* two files have different hashes.
TwoApartDifferent ==
    /\ AtGate
    /\ prev.file # None
    /\ HashOf(prev.file) # HashOf(uploaded_file)
    /\ clock - current_time = 2

\* C2, as stated: of two consecutive triggers 2 seconds apart on files with
\* different hashes the second is rejected as TooSoon, whatever the cache
\* holds and whatever the outcome of the first was.
C2_SecondRejected ==
    [][TwoApartDifferent => (pc' = "Rejected" /\ error' = "TooSoon")]_vars

\* C2, amended: the second is rejected as TooSoon, whatever the cache holds,
\* when the first went through the gate (it ended Done or Failed).
C2_SecondRejectedAfterAccepted ==
    [][(TwoApartDifferent /\ PrevAccepted)
        => (pc' = "Rejected" /\ error' = "TooSoon" /\ UNCHANGED session)]_vars

\* The second trigger rejected with a third file's hash in the cache.
C2_Witness ==
    /\ pc = "Rejected"
    /\ error = "TooSoon"
    /\ PrevAccepted
    /\ HashOf(prev.file) # HashOf(uploaded_file)
    /\ current_time - last_request_time = 2
    /\ last_file_hash \notin {None, HashOf(prev.file), HashOf(uploaded_file)}

\* C3: the cache entry is that of the last analysis that ran to Done (empty
\* before the first), in every state: a run that is rejected, fails or is
\* still on its way does not change it.
C3_CacheIsLastCompleted ==
    /\ last_file_hash = completed.hash
    /\ cached_response = completed.text
    /\ (last_file_hash = None) = (completed.file = None)

\* A run of another file failed after the gate and the cache still holds the
\* completed analysis.
C3_Witness ==
    /\ pc = "Failed"
    /\ error \in {"UnreadableDocument", "ProviderUnavailable", "ProviderError"}
    /\ last_request_time = current_time
    /\ last_file_hash # None
    /\ last_file_hash # HashOf(uploaded_file)

\* C4, as stated: a trigger that arrived while the provider call of an
\* accepted analysis was outstanding is rejected as TooSoon.
C4_RejectedWhileOutstanding ==
    [][(AtGate /\ arrived = "Generating")
        => (pc' = "Rejected" /\ error' = "TooSoon")]_vars

\* C4, amended: such a trigger runs when the call has returned, and is
\* rejected as TooSoon exactly when it runs less than 10 seconds after the
\* request time of the analysis that was outstanding.
C4_RejectedWithinWindow ==
    [][(AtGate /\ arrived = "Generating")
        => /\ last_request_time = current_time
           /\ (pc' = "Rejected") = (clock - current_time < RateLimit)
           /\ pc' = "Rejected" => error' = "TooSoon" /\ UNCHANGED session]_vars

C4_Witness ==
    /\ arrived = "Generating"
    /\ pc = "Rejected"
    /\ error = "TooSoon"
    /\ prev.outcome \in {"Done", "Failed"}

\* C5: a trigger on the bytes of the last completed analysis, 10 seconds or
\* more after its request time and with no request accepted since, is served
\* from the cache and calls no provider.
C5_CachedAfterWindow ==
    [][(/\ AtGate
        /\ completed.file # None
        /\ FileBytes(uploaded_file) = FileBytes(completed.file)
        /\ ~acceptedSince
        /\ clock - completed.time >= RateLimit)
        => (pc' = "Cached" /\ shown' = completed.text /\ providerCalls' = 0
            /\ UNCHANGED session)]_vars

C5_Witness ==
    /\ pc = "Cached"
    /\ uploaded_file = completed.file
    /\ ~acceptedSince
    /\ current_time - completed.time >= RateLimit
    /\ shown = completed.text
    /\ prev.outcome # "Done"

\* The keywords of a job role: the maximal runs of non-space characters, each
\* as the pair of its first and last position.
KeywordSpans(role) ==
    {sp \in (1..Len(role)) \X (1..Len(role)) :
        /\ sp[1] <= sp[2]
        /\ \A i \in sp[1]..sp[2] : role[i] # " "
        /\ sp[1] = 1 \/ role[sp[1] - 1] = " "
        /\ sp[2] = Len(role) \/ role[sp[2] + 1] = " "}

\* The keywords that occur in the text, both in lower case.
MatchedSpans(text, role) ==
    {sp \in KeywordSpans(role) :
        \E off \in 0..(Len(text) - 1) :
            \A k \in 0..(sp[2] - sp[1]) :
                /\ off + k + 1 <= Len(text)
                /\ LowerChar(text[off + k + 1]) = LowerChar(role[sp[1] + k])}

KeywordCount == Cardinality(KeywordSpans(job_role))
Hits == Cardinality(MatchedSpans(file_content, job_role))
Scored == pc = "Prompt" /\ KeywordCount >= 1

\* round(100 * h / n), halves up.
Rounded(h, n) == (200 * h + n) \div (2 * n)

\* C6, as stated: the score is round(100 * hits / keywordCount), at most 100.
C6_ScoreIsRounded ==
    Scored => score = Min(MaxScore, Rounded(Hits, KeywordCount))

\* C6, amended: the score is 100 * hits / keywordCount truncated to an integer
\* (for the job roles of fewer than 50 keywords), within 0..100.
C6_ScoreIsTruncated ==
    Scored => /\ score = (100 * Hits) \div KeywordCount
              /\ score \in 0..MaxScore

\* 2 of 3 keywords matched: 66.
C6_Witness ==
    /\ Scored
    /\ KeywordCount = 3
    /\ Hits = 2
    /\ score = 66

\* C7, as stated: a run that fails with ProviderUnavailable has built no
\* prompt and called no provider.
C7_UnavailableBeforePrompt ==
    error = "ProviderUnavailable" => (prompt = NoPrompt /\ providerCalls = 0)

\* C7, amended: in Gemini mode without the library or without the key no
\* provider call is made and the run that gets as far as the dispatch fails
\* with ProviderUnavailable, after the prompt has been built.
C7_UnavailableBeforeCall ==
    /\ (ai_provider = Gemini /\ ~(genai /\ GOOGLE_API_KEY))
          => /\ providerCalls = 0
             /\ pc \notin {"Calling", "Store", "Done"}
             /\ (pc = "Failed" /\ prompt # NoPrompt) => error = "ProviderUnavailable"
    /\ error = "ProviderUnavailable"
          => /\ ai_provider = Gemini
             /\ ~(genai /\ GOOGLE_API_KEY)
             /\ pc = "Failed"
             /\ prompt # NoPrompt
             /\ trace = <<"Idle", "RateCheck", "Extracting", "Scoring",
                          "Generating", "Failed">>

C7_Witness ==
    /\ error = "ProviderUnavailable"
    /\ prompt # NoPrompt
    /\ genai
    /\ ~GOOGLE_API_KEY

\* The path of a successful analysis.
FullPath == <<"Idle", "RateCheck", "Extracting", "Scoring", "Generating", "Done">>

IsPrefix(a, b) == Len(a) <= Len(b) /\ SubSeq(b, 1, Len(a)) = a

\* The steps of a run.
RunStep ==
    \/ NoFile \/ TooSoon \/ CacheHit \/ Accept
    \/ ExtractRaises \/ ExtractEmpty \/ Extract
    \/ Score \/ BuildPrompt
    \/ DemoFeedback \/ GeminiUnavailable \/ GeminiCall
    \/ (\E t \in GeminiTexts : GeminiReturns(t)) \/ GeminiRaises
    \/ Store

\* C8: a run follows Idle, RateCheck, then Cached, Rejected or Extracting,
\* Scoring, Generating, Done, and leaves that path only for Failed; it is in
\* an outcome exactly when it has ended and can take a step until then; the
\* provider is called at most once, and only after RateCheck and a cache miss.
C8_StateMachine ==
    /\ \/ IsPrefix(trace, FullPath)
       \/ trace = <<"Idle", "RateCheck", "Cached">>
       \/ trace = <<"Idle", "RateCheck", "Rejected">>
       \/ /\ trace[Len(trace)] = "Failed"
          /\ IsPrefix(SubSeq(trace, 1, Len(trace) - 1), FullPath)
          /\ Len(trace) < Len(FullPath) + 1
    /\ trace[Len(trace)] = Phase(pc)
    /\ pc \in Running => ENABLED RunStep
    /\ providerCalls <= 1
    /\ providerCalls = 1
          => /\ IsPrefix(<<"Idle", "RateCheck", "Extracting", "Scoring",
                           "Generating">>, trace)
             /\ last_request_time = current_time
             /\ ai_provider = Gemini

\* The provider call of a run has failed.
C8_Witness ==
    /\ pc = "Failed"
    /\ error = "ProviderError"
    /\ providerCalls = 1
    /\ trace = <<"Idle", "RateCheck", "Extracting", "Scoring", "Generating",
                 "Failed">>

\* The run at the gate is accepted: a file, 10 seconds or more since
\* last_request_time, and a hash that is not the cached one.
Accepted ==
    /\ AtGate
    /\ clock - last_request_time >= RateLimit
    /\ HashOf(uploaded_file) # last_file_hash

\* C9: last_request_time changes exactly in the step that accepts a run, to
\* the time of that run and before extraction; a run without a file, a
\* rejected run and a cache hit leave the session state as it is.
C9_StampOnlyOnAccept ==
    [][/\ (last_request_time' # last_request_time) = Accepted
       /\ Accepted => /\ pc' = "Extracting"
                      /\ last_request_time' = clock
                      /\ current_time' = clock
                      /\ file_content' = <<>>
       /\ (pc = "Start" /\ ~Accepted)
             => (pc' \in {"Failed", "Rejected", "Cached"} /\ UNCHANGED session)
      ]_vars

\* An accepted run has failed and the stamp is that run's time.
C9_Witness ==
    /\ pc = "Failed"
    /\ error = "ProviderError"
    /\ last_request_time = current_time
    /\ completed.file # None
    /\ completed.time < current_time

\* C10: a run that passes the rate check with the cached hash shows the text
\* of the last completed analysis, whatever its job role and mode, and does
\* no extraction, scoring or provider call.
C10_HitByHashAlone ==
    [][(/\ AtGate
        /\ clock - last_request_time >= RateLimit
        /\ HashOf(uploaded_file) = last_file_hash)
        => /\ pc' = "Cached"
           /\ shown' = completed.text
           /\ trace' = <<"Idle", "RateCheck", "Cached">>
           /\ file_content' = <<>>
           /\ prompt' = NoPrompt
           /\ providerCalls' = 0]_vars

\* A hit with another job role and another mode than the ones cached.
C10_Witness ==
    /\ pc = "Cached"
    /\ shown = completed.text
    /\ ai_provider # completed.mode
    /\ job_role # completed.role
    /\ shown \in GeminiTexts

====
